---- MODULE Spec2Model ----
(***************************************************************************)
(* Model of the screenshot capture pipeline of url-createCapture           *)
(* (src/lib/captureService.js): captureAll, captureUrl, captureFullPage    *)
(* and createArchiveBuffer.                                                *)
(*                                                                         *)
(* JavaScript strings are sequences of one-character strings.  The values  *)
(* undefined and null are the one-element sequences Undefined and Null,    *)
(* which no string of the model equals.                                    *)
(***************************************************************************)
EXTENDS Integers, Sequences, FiniteSets, TLC

(* ------------------------------ bounds --------------------------------- *)

\* longest URL array of a request
MaxUrls == 2

(* --------------------------- JavaScript values ------------------------- *)

Undefined == << "<undefined>" >>

Null == << "<null>" >>

\* JavaScript truthiness of a string-or-undefined value
Truthy(v) == v # Undefined /\ v # Null /\ v # << >>

UpperChars == << "A","B","C","D","E","F","G","H","I","J","K","L","M",
                 "N","O","P","Q","R","S","T","U","V","W","X","Y","Z" >>

LowerChars == << "a","b","c","d","e","f","g","h","i","j","k","l","m",
                 "n","o","p","q","r","s","t","u","v","w","x","y","z" >>

DigitChars == << "0","1","2","3","4","5","6","7","8","9" >>

RangeOf(s) == { s[k] : k \in DOMAIN s }

IsAlpha(c) == c \in RangeOf(UpperChars) \cup RangeOf(LowerChars)

IsDigit(c) == c \in RangeOf(DigitChars)

\* /\s/
IsSpace(c) == c \in { " ", "\t", "\n" }

LowerChar(c) ==
  IF c \in RangeOf(UpperChars)
  THEN LowerChars[CHOOSE k \in DOMAIN UpperChars : UpperChars[k] = c]
  ELSE c

\* String.prototype.toLowerCase
ToLowerCase(s) == [k \in DOMAIN s |-> LowerChar(s[k])]

\* String.prototype.slice(0, n)
SliceTo(s, n) == IF Len(s) <= n THEN s ELSE SubSeq(s, 1, n)

RECURSIVE DecimalDigits(_)
\* String(n) for a natural number n
DecimalDigits(n) ==
  IF n < 10 THEN << DigitChars[n + 1] >>
  ELSE DecimalDigits(n \div 10) \o << DigitChars[(n % 10) + 1] >>

\* String.prototype.padStart(2, '0')
PadStart2(s) == IF Len(s) >= 2 THEN s ELSE IF Len(s) = 1 THEN << "0" >> \o s ELSE << "0", "0" >>

(* ------------------------- sanitizeForFilename ------------------------- *)

UnsafeChars == { "\\", "/", ":", "*", "?", "\"", "<", ">", "|" }

\* .replace(/[\\/:*?"<>|]/g, '')
StripUnsafe(s) == SelectSeq(s, LAMBDA c : c \notin UnsafeChars)

\* the positions of s, in order
Positions(s) == [k \in 1..Len(s) |-> k]

\* .replace(/\s+/g, '-'): each run of whitespace leaves one hyphen
SpaceRunsToHyphen(s) ==
  LET LastOfRun(k) == ~IsSpace(s[k]) \/ k = Len(s) \/ ~IsSpace(s[k + 1])
      kept         == SelectSeq(Positions(s), LastOfRun)
  IN [j \in DOMAIN kept |-> IF IsSpace(s[kept[j]]) THEN "-" ELSE s[kept[j]]]

\* .replace(/-+/g, '-'): each run of hyphens leaves one hyphen
CollapseHyphens(s) ==
  LET LastOfRun(k) == s[k] # "-" \/ k = Len(s) \/ s[k + 1] # "-"
      kept         == SelectSeq(Positions(s), LastOfRun)
  IN [j \in DOMAIN kept |-> s[kept[j]]]

SanitizeMaxLength == 80

DefaultFallback == << "p","a","g","e" >>

sanitizeForFilename(value, fallback) ==
  LET raw     == IF Truthy(value) THEN value ELSE << >>
      cleaned == ToLowerCase(SliceTo(CollapseHyphens(SpaceRunsToHyphen(StripUnsafe(raw))),
                                     SanitizeMaxLength))
  IN IF cleaned # << >> THEN cleaned ELSE fallback

(* ------------------------------ new URL() ------------------------------ *)

\* index of the first element of s that lies in set, 0 if there is none
FirstIndexIn(s, set) ==
  IF \E k \in DOMAIN s : s[k] \in set
  THEN CHOOSE k \in DOMAIN s : s[k] \in set /\ \A j \in 1..(k - 1) : s[j] \notin set
  ELSE 0

\* index of the first element of s that lies outside set, Len(s)+1 if none
FirstIndexNotIn(s, set) ==
  IF \E k \in DOMAIN s : s[k] \notin set
  THEN CHOOSE k \in DOMAIN s : s[k] \notin set /\ \A j \in 1..(k - 1) : s[j] \in set
  ELSE Len(s) + 1

DropFirst(s, n) == IF n >= Len(s) THEN << >> ELSE SubSeq(s, n + 1, Len(s))

RECURSIVE TrimSpaces(_)
\* the URL parser strips leading and trailing C0 control or space
TrimSpaces(s) ==
  IF s = << >> THEN s
  ELSE IF IsSpace(Head(s)) THEN TrimSpaces(Tail(s))
  ELSE IF IsSpace(s[Len(s)]) THEN TrimSpaces(SubSeq(s, 1, Len(s) - 1))
  ELSE s

SpecialSchemes ==
  { << "h","t","t","p" >>, << "h","t","t","p","s" >>, << "f","t","p" >>,
    << "w","s" >>, << "w","s","s" >> }

ForbiddenHostChars ==
  { " ", "\t", "\n", "#", "/", ":", "<", ">", "?", "@", "[", "\\", "]", "^", "|", "%" }

IsSchemeString(s) ==
  /\ s # << >>
  /\ IsAlpha(s[1])
  /\ \A k \in DOMAIN s : IsAlpha(s[k]) \/ IsDigit(s[k]) \/ s[k] \in { "+", "-", "." }

URLFailure == [ok |-> FALSE, hostname |-> << >>]

\* new URL(input) without a base: ok = FALSE when the constructor throws,
\* otherwise the hostname of the parsed URL
ParseURL(input) ==
  LET s     == TrimSpaces(input)
      colon == FirstIndexIn(s, { ":" })
  IN IF colon = 0 \/ ~IsSchemeString(SubSeq(s, 1, colon - 1)) THEN URLFailure
     ELSE
       LET scheme == ToLowerCase(SubSeq(s, 1, colon - 1))
           rest   == DropFirst(s, colon)
       IN IF scheme \in SpecialSchemes
          THEN LET afterSlashes == DropFirst(rest, FirstIndexNotIn(rest, { "/", "\\" }) - 1)
                   stop         == FirstIndexIn(afterSlashes, { "/", "\\", "?", "#", ":" })
                   host         == IF stop = 0 THEN afterSlashes
                                   ELSE SubSeq(afterSlashes, 1, stop - 1)
               IN IF host = << >> \/ \E k \in DOMAIN host : host[k] \in ForbiddenHostChars
                  THEN URLFailure
                  ELSE [ok |-> TRUE, hostname |-> ToLowerCase(host)]
          ELSE IF Len(rest) >= 2 /\ rest[1] = "/" /\ rest[2] = "/"
          THEN LET auth == DropFirst(rest, 2)
                   stop == FirstIndexIn(auth, { "/", "?", "#", ":" })
                   host == IF stop = 0 THEN auth ELSE SubSeq(auth, 1, stop - 1)
               IN IF \E k \in DOMAIN host : host[k] \in ForbiddenHostChars
                  THEN URLFailure
                  ELSE [ok |-> TRUE, hostname |-> host]
          ELSE [ok |-> TRUE, hostname |-> << >>]

(* ------------------------------- path ---------------------------------- *)

RECURSIVE StripTrailingSlashes(_)
StripTrailingSlashes(s) ==
  IF s # << >> /\ s[Len(s)] = "/" THEN StripTrailingSlashes(SubSeq(s, 1, Len(s) - 1)) ELSE s

RECURSIVE LastSegment(_)
LastSegment(s) ==
  IF FirstIndexIn(s, { "/" }) = 0 THEN s
  ELSE LastSegment(DropFirst(s, FirstIndexIn(s, { "/" })))

\* path.basename (posix)
Basename(p) == LastSegment(StripTrailingSlashes(p))

\* path.isAbsolute (posix)
IsAbsolute(p) == p # << >> /\ p[1] = "/"

\* process.cwd()
Cwd == << "/", "w" >>

\* path.resolve(process.cwd(), p) for a relative p without '.' or '..' segments
ResolveFromCwd(p) == Cwd \o << "/" >> \o StripTrailingSlashes(p)

\* path.join(dir, name)
JoinPath(dir, name) == StripTrailingSlashes(dir) \o << "/" >> \o name

(* ------------------------------- inputs -------------------------------- *)

UrlEmpty == << >>

UrlSpaces == << " " >>

UrlMalformed == << "n","o"," ","u" >>

UrlHttp == << "h","t","t","p",":","/","/","A",".","c" >>

UrlOpaque == << "x",":","b" >>

\* a malformed URL made of unsafe characters only
UrlUnsafe == << "?" >>

UrlPool == { UrlEmpty, UrlSpaces, UrlMalformed, UrlUnsafe, UrlHttp, UrlOpaque }

\* new URL() on the URLs of the model, parsed once
ParsedUrls == [u \in UrlPool |-> ParseURL(u)]

\* new URL(u)
NewURL(u) == ParsedUrls[u]

RECURSIVE SeqsUpTo(_, _)
\* the sequences over set of length at most n
SeqsUpTo(set, n) ==
  IF n = 0 THEN { << >> }
  ELSE LET shorter == SeqsUpTo(set, n - 1)
       IN shorter \cup { Append(s, x) : s \in { t \in shorter : Len(t) = n - 1 }, x \in set }

\* the urls argument: absent, a value that is not an array, or an array
UrlsArguments ==
  { [kind |-> "undefined", items |-> << >>], [kind |-> "string", items |-> << UrlHttp >>] }
  \cup { [kind |-> "array", items |-> s] : s \in SeqsUpTo(UrlPool, MaxUrls) }

FormatJpeg == << "j","p","e","g" >>

FormatPng == << "p","n","g" >>

FormatWebp == << "w","e","b","p" >>

FormatPool == { FormatJpeg, FormatWebp }

DestinationReport ==
  << "M","y"," ","R","e","p","o","r","t","/","2","0","2","4",":","Q","1" >>

DestinationRoot == << "/" >>

\* a path whose last segment is one character longer than the limit of line 20
DestinationLong ==
  << "/","d","/" >> \o [k \in 1..(SanitizeMaxLength + 1) |-> IF k % 2 = 1 THEN "L" ELSE "x"]

DestinationPool == { Undefined, DestinationReport, DestinationRoot, DestinationLong }

\* what page.title() may resolve to
TitlePool == { << >>, << "M","y"," ","-"," ","P" >>, << "?","/" >> }

\* messages of the errors a failing navigation may raise
NavigationErrorPool == { << >>, << "n","e","t",":",":","E","R","R" >> }

\* messages of the other errors the browser, the page, the file system or the
\* archive stream may raise
ErrMessagePool == { << "E","r","r" >> }

\* what Date.now() may return
NowPool == { << "1","7" >> }

MissingURLsMessage == << "Please provide one or more URLs." >>

InvalidURLMessage == << "Invalid URL" >>

UnknownErrorMessage == << "Unknown error" >>

DirectoryErrorPrefix == << "Unable to access destination directory: " >>

ScreenshotsPrefix == << "s","c","r","e","e","n","s","h","o","t","s","-" >>

(* ------------------------------- state --------------------------------- *)

VARIABLES
  urls,                \* the urls argument of captureAll
  format,              \* options.format as passed
  destination,         \* options.destination as passed
  allowDiskWrites,     \* options.allowDiskWrites
  pc,                  \* position in captureAll / captureUrl
  i,                   \* loop index of captureAll (0-based)
  normalizedFormat,
  resolvedDestination,
  archiveFolder,
  browser,             \* "undefined" | "open" | "closed"
  page,                \* "none" | "open" | "closed": the page of the current captureUrl
  current,             \* locals of the running captureUrl
  pending,             \* what captureUrl returns once its finally block has run
  thrown,              \* the error travelling out of the try block, Undefined if none
  results,
  archive,             \* entries appended to the archive, in order
  manifest,
  outcome,             \* how the captureAll promise settled
  events,              \* browser and page operations performed, in order
  fsOps,               \* file system calls made (mkdir, writeFile), in order
  pagePc,              \* position in captureFullPage
  pageFormat,          \* the format argument of captureFullPage
  metrics,             \* what the measuring page.evaluate returned
  offset,
  segments,
  pageOps,             \* operations performed on the page, in order
  stitchCalls,         \* number of calls of stitchSegments
  pageResult,          \* how the captureFullPage promise settled
  handler,             \* "none" | "server" | "api": the HTTP handler that runs
  request,             \* the HTTP request it received
  handlerPc,           \* position in the handler
  response             \* the HTTP response it wrote

httpVars == << handler, request, handlerPc, response >>

pageVars ==
  << pagePc, pageFormat, metrics, offset, segments, pageOps, stitchCalls, pageResult >>

captureVars ==
  << urls, format, destination, allowDiskWrites, pc, i, normalizedFormat,
     resolvedDestination, archiveFolder, browser, page, current, pending,
     thrown, results, archive, manifest, outcome, events, fsOps >>

NoCurrent == [title |-> Undefined, filename |-> Undefined, buffer |-> Undefined]

NoOutcome == [kind |-> "pending"]

NoManifest == [generatedAt |-> Undefined, folder |-> Undefined, files |-> << >>]

NoRequest == [method |-> "none", body |-> [kind |-> "none"]]

NoResponse == [status |-> 0, body |-> [kind |-> "none"]]

\* no HTTP handler runs
IdleHttp ==
  /\ handler = "none"
  /\ request = NoRequest
  /\ handlerPc = "idle"
  /\ response = NoResponse

IdleCapture ==
  /\ pc = "start"
  /\ i = 0
  /\ normalizedFormat = Undefined
  /\ resolvedDestination = Null
  /\ archiveFolder = Undefined
  /\ browser = "undefined"
  /\ page = "none"
  /\ current = NoCurrent
  /\ pending = Undefined
  /\ thrown = Undefined
  /\ results = << >>
  /\ archive = << >>
  /\ manifest = NoManifest
  /\ outcome = NoOutcome
  /\ events = << >>
  /\ fsOps = << >>

InitCapture ==
  /\ urls \in UrlsArguments
  /\ format \in FormatPool
  /\ destination \in DestinationPool
  /\ allowDiskWrites \in BOOLEAN
  /\ IdleCapture

inputVars == << urls, format, destination, allowDiskWrites >>

Event(op, idx) == [op |-> op, idx |-> idx]

Rejected(message) == [kind |-> "rejected", message |-> message]

\* r.f of a result object, undefined when the object has no such property
Field(r, f) == IF f \in DOMAIN r THEN r[f] ELSE Undefined

(* --------------------------- createArchiveBuffer ----------------------- *)

ManifestName == << "m","a","n","i","f","e","s","t",".","j","s","o","n" >>

FailedFallback == << "f","a","i","l","e","d" >>

TxtSuffix == << ".","t","x","t" >>


\* variant: the image entry is chosen by the file path instead of the buffer
ArchiveEntry_TestsFilePath(file, folderName) ==
  IF file.success /\ Truthy(Field(file, "filePath"))
  THEN [name    |-> folderName \o << "/" >> \o file.filename,
        kind    |-> "image",
        content |-> file.buffer]
  ELSE [name    |-> folderName \o << "/" >> \o sanitizeForFilename(file.url, FailedFallback)
                      \o TxtSuffix,
        kind    |-> "text",
        content |-> IF Truthy(Field(file, "error")) THEN file.error
                    ELSE UnknownErrorMessage]

\* the files.forEach callback: the entry appended for one result
ArchiveEntry(file, folderName) ==
  IF file.success /\ Truthy(Field(file, "buffer"))
  THEN [name    |-> folderName \o << "/" >> \o file.filename,
        kind    |-> "image",
        content |-> file.buffer]
  ELSE [name    |-> folderName \o << "/" >> \o sanitizeForFilename(file.url, FailedFallback)
                      \o TxtSuffix,
        kind    |-> "text",
        content |-> IF Truthy(Field(file, "error")) THEN file.error
                    ELSE UnknownErrorMessage]

ManifestFile(file) ==
  [url      |-> file.url,
   filename |-> Field(file, "filename"),
   success  |-> file.success,
   filePath |-> IF Truthy(Field(file, "filePath")) THEN file.filePath ELSE Null,
   error    |-> IF Truthy(Field(file, "error")) THEN file.error ELSE Null]

BuildManifest(files, folderName, now) ==
  [generatedAt |-> now,
   folder      |-> folderName,
   files       |-> [k \in DOMAIN files |-> ManifestFile(files[k])]]

\* variant: the manifest is appended before the result entries
ArchiveEntries_ManifestFirst(files, folderName) ==
  << [name    |-> folderName \o << "/" >> \o ManifestName,
      kind    |-> "manifest",
      content |-> << "<manifest json>" >>] >>
  \o [k \in DOMAIN files |-> ArchiveEntry(files[k], folderName)]

\* the entries appended before archive.finalize(), in append order
ArchiveEntries(files, folderName) ==
  [k \in DOMAIN files |-> ArchiveEntry(files[k], folderName)]
  \o << [name    |-> folderName \o << "/" >> \o ManifestName,
         kind    |-> "manifest",
         content |-> << "<manifest json>" >>] >>

(* ------------------------------ captureAll ----------------------------- *)


\* variant: the length test is missing
MissingURLs_NoLengthCheck(u) == u.kind # "array"

\* !urls || !Array.isArray(urls) || urls.length === 0
MissingURLs(u) == u.kind # "array" \/ Len(u.items) = 0

\* lines 236-239: the request is rejected
ValidateFails ==
  /\ pc = "start"
  /\ MissingURLs(urls)
  /\ pc' = "settled"
  /\ outcome' = Rejected(MissingURLsMessage)
  /\ UNCHANGED << httpVars, pageVars, inputVars, i, normalizedFormat, resolvedDestination, archiveFolder,
                  browser, page, current, pending, thrown, results, archive, manifest,
                  events, fsOps >>

NormalizeFormat(f) == IF f = FormatJpeg THEN FormatJpeg ELSE FormatPng

\* variant: the whole destination is sanitized, not its last segment
SanitizedDestinationLabel_WholeLabel(d) ==
  IF Truthy(d) THEN sanitizeForFilename(d, DefaultFallback) ELSE Null

SanitizedDestinationLabel(d) ==
  IF Truthy(d) THEN sanitizeForFilename(Basename(d), DefaultFallback) ELSE Null

ResolveDestination(d) == IF IsAbsolute(d) THEN d ELSE ResolveFromCwd(d)

ArchiveFolderName(d, now) ==
  IF Truthy(SanitizedDestinationLabel(d)) THEN SanitizedDestinationLabel(d)
  ELSE ScreenshotsPrefix \o now

\* variant: the directory is created whenever a destination is given
Prepare_IgnoresAllowDiskWrites ==
  /\ pc = "start"
  /\ ~MissingURLs(urls)
  /\ normalizedFormat' = NormalizeFormat(format)
  /\ IF Truthy(destination)
     THEN /\ resolvedDestination' = ResolveDestination(destination)
          /\ fsOps' = Append(fsOps, [op |-> "mkdir", path |-> ResolveDestination(destination)])
     ELSE /\ resolvedDestination' = Null
          /\ fsOps' = fsOps
  /\ \E now \in NowPool : archiveFolder' = ArchiveFolderName(destination, now)
  /\ pc' = "launch"
  /\ UNCHANGED << httpVars, pageVars, inputVars, i, browser, page, current, pending, thrown, results,
                  archive, manifest, outcome, events >>

\* lines 241-255: format, destination label, directory, archive folder
Prepare ==
  /\ pc = "start"
  /\ ~MissingURLs(urls)
  /\ normalizedFormat' = NormalizeFormat(format)
  /\ IF allowDiskWrites /\ Truthy(destination)
     THEN /\ resolvedDestination' = ResolveDestination(destination)
          /\ fsOps' = Append(fsOps, [op |-> "mkdir", path |-> ResolveDestination(destination)])
     ELSE /\ resolvedDestination' = Null
          /\ fsOps' = fsOps
  /\ \E now \in NowPool : archiveFolder' = ArchiveFolderName(destination, now)
  /\ pc' = "launch"
  /\ UNCHANGED << httpVars, pageVars, inputVars, i, browser, page, current, pending, thrown, results,
                  archive, manifest, outcome, events >>

\* lines 24-30, 252: fsPromises.mkdir fails, ensureDirectory rethrows
PrepareFails ==
  /\ pc = "start"
  /\ ~MissingURLs(urls)
  /\ allowDiskWrites /\ Truthy(destination)
  /\ normalizedFormat' = NormalizeFormat(format)
  /\ resolvedDestination' = ResolveDestination(destination)
  /\ fsOps' = Append(fsOps, [op |-> "mkdir", path |-> ResolveDestination(destination)])
  /\ \E m \in ErrMessagePool : outcome' = Rejected(DirectoryErrorPrefix \o m)
  /\ pc' = "settled"
  /\ UNCHANGED << httpVars, pageVars, inputVars, i, archiveFolder, browser, page, current, pending, thrown,
                  results, archive, manifest, events >>

\* line 261: the browser starts
LaunchBrowser ==
  /\ pc = "launch"
  /\ browser' = "open"
  /\ events' = Append(events, Event("launch", -1))
  /\ i' = 0
  /\ pc' = "loop"
  /\ UNCHANGED << httpVars, pageVars, inputVars, normalizedFormat, resolvedDestination, archiveFolder, page,
                  current, pending, thrown, results, archive, manifest, outcome, fsOps >>

\* line 261: launchBrowser rejects; browser stays undefined, so the finally
\* block closes nothing and the error leaves captureAll
LaunchFails ==
  /\ pc = "launch"
  /\ \E m \in ErrMessagePool : outcome' = Rejected(m)
  /\ pc' = "settled"
  /\ UNCHANGED << httpVars, pageVars, inputVars, i, normalizedFormat, resolvedDestination, archiveFolder,
                  browser, page, current, pending, thrown, results, archive, manifest,
                  events, fsOps >>

CurrentUrl == urls.items[i + 1]

\* line 263: the loop condition fails
LoopExit ==
  /\ pc = "loop"
  /\ i >= Len(urls.items)
  /\ pc' = "finally"
  /\ UNCHANGED << httpVars, pageVars, inputVars, i, normalizedFormat, resolvedDestination, archiveFolder,
                  browser, page, current, pending, thrown, results, archive, manifest,
                  outcome, events, fsOps >>


\* variant: a blank entry gets a failed result instead of being skipped
SkipBlank_PushesResult ==
  /\ pc = "loop"
  /\ i < Len(urls.items)
  /\ ~Truthy(urls.items[i + 1])
  /\ results' = Append(results, [url |-> urls.items[i + 1], success |-> FALSE,
                                 error |-> InvalidURLMessage])
  /\ i' = i + 1
  /\ UNCHANGED << httpVars, pageVars, inputVars, pc, normalizedFormat, resolvedDestination,
                  archiveFolder, browser, page, current, pending, thrown, archive,
                  manifest, outcome, events, fsOps >>

\* line 265: if (!currentUrl) continue
SkipBlank ==
  /\ pc = "loop"
  /\ i < Len(urls.items)
  /\ ~Truthy(CurrentUrl)
  /\ i' = i + 1
  /\ UNCHANGED << httpVars, pageVars, inputVars, pc, normalizedFormat, resolvedDestination, archiveFolder,
                  browser, page, current, pending, thrown, results, archive, manifest,
                  outcome, events, fsOps >>


\* variant: the parser's own message is passed on
InvalidUrlResult_ParserMessage(url) ==
  [url |-> url, success |-> FALSE, error |-> << "TypeError: Invalid URL" >>]

InvalidUrlResult(url) == [url |-> url, success |-> FALSE, error |-> InvalidURLMessage]

\* lines 267-277: new URL(currentUrl) throws
RejectInvalid ==
  /\ pc = "loop"
  /\ i < Len(urls.items)
  /\ Truthy(CurrentUrl)
  /\ ~NewURL(CurrentUrl).ok
  /\ results' = Append(results, InvalidUrlResult(CurrentUrl))
  /\ i' = i + 1
  /\ UNCHANGED << httpVars, pageVars, inputVars, pc, normalizedFormat, resolvedDestination, archiveFolder,
                  browser, page, current, pending, thrown, archive, manifest, outcome,
                  events, fsOps >>

(* ------------------------------ captureUrl ----------------------------- *)

FailedResult(url, message) == [url |-> url, success |-> FALSE, error |-> message]

PagePrefix == << "p","a","g","e","-" >>

\* lines 175-177
BaseName(pageTitle, url, index) ==
  sanitizeForFilename(
    IF Truthy(pageTitle) THEN pageTitle
    ELSE IF Truthy(NewURL(url).hostname) THEN NewURL(url).hostname
    ELSE PagePrefix \o DecimalDigits(index + 1),
    DefaultFallback)

\* line 179
Extension(fmt) == IF fmt = FormatJpeg THEN << "j","p","g" >> ELSE << "p","n","g" >>

\* line 180
Filename(pageTitle, url, fmt, index) ==
  PadStart2(DecimalDigits(index + 1)) \o << "-" >> \o BaseName(pageTitle, url, index)
    \o << "." >> \o Extension(fmt)

\* lines 279, 170: a well-formed URL enters captureUrl and its page opens
NewPage ==
  /\ pc = "loop"
  /\ i < Len(urls.items)
  /\ Truthy(CurrentUrl)
  /\ NewURL(CurrentUrl).ok
  /\ page' = "open"
  /\ current' = NoCurrent
  /\ events' = Append(events, Event("newPage", i))
  /\ pc' = "goto"
  /\ UNCHANGED << httpVars, pageVars, inputVars, i, normalizedFormat, resolvedDestination, archiveFolder,
                  browser, pending, thrown, results, archive, manifest, outcome, fsOps >>


\* variant: no finally block around the loop, the browser is left open
NewPageFails_SkipsFinally ==
  /\ pc = "loop"
  /\ i < Len(urls.items)
  /\ Truthy(urls.items[i + 1])
  /\ NewURL(urls.items[i + 1]).ok
  /\ \E m \in ErrMessagePool : thrown' = m /\ outcome' = Rejected(m)
  /\ pc' = "settled"
  /\ UNCHANGED << httpVars, pageVars, inputVars, i, normalizedFormat, resolvedDestination,
                  archiveFolder, browser, page, current, pending, results, archive,
                  manifest, events, fsOps >>

\* line 170: browser.newPage() rejects outside captureUrl's try block; the
\* error leaves captureUrl and the loop, and the finally of captureAll runs
NewPageFails ==
  /\ pc = "loop"
  /\ i < Len(urls.items)
  /\ Truthy(CurrentUrl)
  /\ NewURL(CurrentUrl).ok
  /\ \E m \in ErrMessagePool : thrown' = m
  /\ pc' = "finally"
  /\ UNCHANGED << httpVars, pageVars, inputVars, i, normalizedFormat, resolvedDestination, archiveFolder,
                  browser, page, current, pending, results, archive, manifest, outcome,
                  events, fsOps >>

\* the catch block of captureUrl (lines 185-186), reached from step at
CatchInCaptureUrl(m) ==
  /\ pending' = FailedResult(CurrentUrl, m)
  /\ pc' = "closePage"

\* line 173: navigation succeeds
Goto ==
  /\ pc = "goto"
  /\ events' = Append(events, Event("goto", i))
  /\ pc' = "title"
  /\ UNCHANGED << httpVars, pageVars, inputVars, i, normalizedFormat, resolvedDestination, archiveFolder,
                  browser, page, current, pending, thrown, results, archive, manifest,
                  outcome, fsOps >>


\* variant: the catch block returns without the finally block closing the page
GotoFails_LeaksPage ==
  /\ pc = "goto"
  /\ events' = Append(events, Event("goto", i))
  /\ \E m \in NavigationErrorPool :
       results' = Append(results, [url |-> urls.items[i + 1], success |-> FALSE,
                                   error |-> m])
  /\ i' = i + 1
  /\ pc' = "loop"
  /\ UNCHANGED << httpVars, pageVars, inputVars, normalizedFormat, resolvedDestination,
                  archiveFolder, browser, page, current, pending, thrown, archive,
                  manifest, outcome, fsOps >>

\* line 173: navigation fails or times out
GotoFails ==
  /\ pc = "goto"
  /\ events' = Append(events, Event("goto", i))
  /\ \E m \in NavigationErrorPool : CatchInCaptureUrl(m)
  /\ UNCHANGED << httpVars, pageVars, inputVars, i, normalizedFormat, resolvedDestination, archiveFolder,
                  browser, page, current, thrown, results, archive, manifest, outcome,
                  fsOps >>

\* lines 174-180: title read, file name derived
ReadTitle ==
  /\ pc = "title"
  /\ \E t \in TitlePool :
       current' = [current EXCEPT !.title = t,
                                  !.filename = Filename(t, CurrentUrl, normalizedFormat, i)]
  /\ pc' = "capture"
  /\ UNCHANGED << httpVars, pageVars, inputVars, i, normalizedFormat, resolvedDestination, archiveFolder,
                  browser, page, pending, thrown, results, archive, manifest, outcome,
                  fsOps, events >>

\* line 174: page.title() rejects
ReadTitleFails ==
  /\ pc = "title"
  /\ \E m \in ErrMessagePool : CatchInCaptureUrl(m)
  /\ UNCHANGED << httpVars, pageVars, inputVars, i, normalizedFormat, resolvedDestination, archiveFolder,
                  browser, page, current, thrown, results, archive, manifest, outcome,
                  fsOps, events >>

\* the bytes captureFullPage resolves to for a format
ImageBuffer(fmt) == << "<Buffer>" >> \o fmt

SuccessResult(url, filename, filePath, buffer) ==
  [url |-> url, success |-> TRUE, filename |-> filename, filePath |-> filePath,
   buffer |-> buffer]

\* lines 181-184 without a destination: captureFullPage resolves,
\* writeFileIfNeeded returns null
CaptureNoWrite ==
  /\ pc = "capture"
  /\ ~Truthy(resolvedDestination)
  /\ current' = [current EXCEPT !.buffer = ImageBuffer(normalizedFormat)]
  /\ pending' = SuccessResult(CurrentUrl, current.filename, Null,
                              ImageBuffer(normalizedFormat))
  /\ pc' = "closePage"
  /\ UNCHANGED << httpVars, pageVars, inputVars, i, normalizedFormat, resolvedDestination, archiveFolder,
                  browser, page, thrown, results, archive, manifest, outcome, fsOps, events >>

\* lines 181-184 with a destination: captureFullPage resolves and the file
\* is written
CaptureAndWrite ==
  /\ pc = "capture"
  /\ Truthy(resolvedDestination)
  /\ current' = [current EXCEPT !.buffer = ImageBuffer(normalizedFormat)]
  /\ fsOps' = Append(fsOps, [op |-> "writeFile",
                             path |-> JoinPath(resolvedDestination, current.filename)])
  /\ pending' = SuccessResult(CurrentUrl, current.filename,
                              JoinPath(resolvedDestination, current.filename),
                              ImageBuffer(normalizedFormat))
  /\ pc' = "closePage"
  /\ UNCHANGED << httpVars, pageVars, inputVars, i, normalizedFormat, resolvedDestination, archiveFolder,
                  browser, page, thrown, results, archive, manifest, outcome, events >>

\* line 181: captureFullPage rejects (measurement, scroll or screenshot)
CaptureFails ==
  /\ pc = "capture"
  /\ \E m \in ErrMessagePool : CatchInCaptureUrl(m)
  /\ UNCHANGED << httpVars, pageVars, inputVars, i, normalizedFormat, resolvedDestination, archiveFolder,
                  browser, page, current, thrown, results, archive, manifest, outcome,
                  fsOps, events >>

\* lines 165, 182: captureFullPage resolves, fsPromises.writeFile rejects
WriteFails ==
  /\ pc = "capture"
  /\ Truthy(resolvedDestination)
  /\ current' = [current EXCEPT !.buffer = ImageBuffer(normalizedFormat)]
  /\ \E m \in ErrMessagePool : CatchInCaptureUrl(m)
  /\ UNCHANGED << httpVars, pageVars, inputVars, i, normalizedFormat, resolvedDestination, archiveFolder,
                  browser, page, thrown, results, archive, manifest, outcome, fsOps, events >>

\* lines 187-189, 286: page.close() resolves, captureUrl returns, the result
\* is pushed
ClosePage ==
  /\ pc = "closePage"
  /\ page' = "closed"
  /\ events' = Append(events, Event("closePage", i))
  /\ results' = Append(results, pending)
  /\ pending' = Undefined
  /\ current' = NoCurrent
  /\ i' = i + 1
  /\ pc' = "loop"
  /\ UNCHANGED << httpVars, pageVars, inputVars, normalizedFormat, resolvedDestination, archiveFolder,
                  browser, thrown, archive, manifest, outcome, fsOps >>

\* line 188: page.close() rejects inside the finally block; its error
\* replaces the pending return value and leaves captureUrl and the loop
ClosePageFails ==
  /\ pc = "closePage"
  /\ page' = "closed"
  /\ events' = Append(events, Event("closePage", i))
  /\ pending' = Undefined
  /\ current' = NoCurrent
  /\ \E m \in ErrMessagePool : thrown' = m
  /\ pc' = "finally"
  /\ UNCHANGED << httpVars, pageVars, inputVars, i, normalizedFormat, resolvedDestination, archiveFolder,
                  browser, results, archive, manifest, outcome, fsOps >>

(* ----------------------- captureAll: finally, archive ------------------ *)

\* lines 288-292: browser.close() resolves; a travelling error then leaves
\* captureAll, otherwise the archive is built next
CloseBrowser ==
  /\ pc = "finally"
  /\ browser = "open"
  /\ browser' = "closed"
  /\ events' = Append(events, Event("closeBrowser", -1))
  /\ IF thrown # Undefined
     THEN /\ outcome' = Rejected(thrown)
          /\ pc' = "settled"
     ELSE /\ outcome' = outcome
          /\ pc' = "archive"
  /\ UNCHANGED << httpVars, pageVars, inputVars, i, normalizedFormat, resolvedDestination, archiveFolder,
                  page, current, pending, thrown, results, archive, manifest, fsOps >>

\* line 290: browser.close() rejects; its error leaves captureAll
CloseBrowserFails ==
  /\ pc = "finally"
  /\ browser = "open"
  /\ browser' = "closed"
  /\ events' = Append(events, Event("closeBrowser", -1))
  /\ \E m \in ErrMessagePool : outcome' = Rejected(m)
  /\ pc' = "settled"
  /\ UNCHANGED << httpVars, pageVars, inputVars, i, normalizedFormat, resolvedDestination, archiveFolder,
                  page, current, pending, thrown, results, archive, manifest, fsOps >>

\* results.map(({ buffer, ...rest }) => rest)
WithoutBuffer(r) == [f \in (DOMAIN r) \ { "buffer" } |-> r[f]]

\* lines 294-301: the archive is built and captureAll resolves
CreateArchive ==
  /\ pc = "archive"
  /\ archive' = ArchiveEntries(results, archiveFolder)
  /\ \E now \in NowPool : manifest' = BuildManifest(results, archiveFolder, now)
  /\ events' = Append(events, Event("archive", -1))
  /\ outcome' = [kind |-> "resolved",
                 results |-> [k \in DOMAIN results |-> WithoutBuffer(results[k])],
                 archiveFolder |-> archiveFolder,
                 savedTo |-> resolvedDestination]
  /\ pc' = "settled"
  /\ UNCHANGED << httpVars, pageVars, inputVars, i, normalizedFormat, resolvedDestination, archiveFolder,
                  browser, page, current, pending, thrown, results, fsOps >>

\* lines 212-213, 294: the archive stream fails; captureAll rejects
CreateArchiveFails ==
  /\ pc = "archive"
  /\ events' = Append(events, Event("archive", -1))
  /\ \E m \in ErrMessagePool : outcome' = Rejected(m)
  /\ pc' = "settled"
  /\ UNCHANGED << httpVars, pageVars, inputVars, i, normalizedFormat, resolvedDestination, archiveFolder,
                  browser, page, current, pending, thrown, results, archive, manifest,
                  fsOps >>

NextCapture ==
  \/ ValidateFails
  \/ Prepare
  \/ PrepareFails
  \/ LaunchBrowser
  \/ LaunchFails
  \/ LoopExit
  \/ SkipBlank
  \/ RejectInvalid
  \/ NewPage
  \/ NewPageFails
  \/ Goto
  \/ GotoFails
  \/ ReadTitle
  \/ ReadTitleFails
  \/ CaptureNoWrite
  \/ CaptureAndWrite
  \/ CaptureFails
  \/ WriteFails
  \/ ClosePage
  \/ ClosePageFails
  \/ CloseBrowser
  \/ CloseBrowserFails
  \/ CreateArchive
  \/ CreateArchiveFails

(* ---------------------------- captureFullPage -------------------------- *)

\* the single-capture ceiling
SingleCaptureCeiling == 16384

SettleDelay == 200

JpegQuality == 85

\* defaultViewport of launchBrowser
ViewportWidth == 1280

DefaultViewportHeight == 720

\* document heights a page may measure: at, below and above the ceiling,
\* multiples of a viewport height and not
TotalHeightPool == { 720, 16384, 16385, 16560, 16561, 17000 }

ViewportHeightPool == { DefaultViewportHeight, 1000, 4096 }

Min(a, b) == IF a <= b THEN a ELSE b

NoMetrics == [totalHeight |-> 0, viewportHeight |-> 0, viewportWidth |-> 0]

IdlePage ==
  /\ pagePc = "idle"
  /\ pageFormat = Undefined
  /\ metrics = NoMetrics
  /\ offset = 0
  /\ segments = << >>
  /\ pageOps = << >>
  /\ stitchCalls = 0
  /\ pageResult = NoOutcome

\* line 110
ScreenshotType(fmt) == IF fmt = FormatJpeg THEN FormatJpeg ELSE FormatPng

\* a decoded raster: its format, its size and the bands drawn on it, in order
Raster(type, width, height, bands) ==
  [type |-> type, width |-> width, height |-> height, bands |-> bands]

RECURSIVE StitchBands(_, _, _, _)
\* the segments.forEach of stitchSegments: the bands bitblt'ed from segment k on,
\* with currentTop the running top
StitchBands(segs, k, width, totalHeight_currentTop) ==
  LET totalHeight == totalHeight_currentTop[1]
      currentTop  == totalHeight_currentTop[2]
  IN IF k > Len(segs) THEN << >>
     ELSE LET drawHeight == Min(segs[k].buffer.height, totalHeight - currentTop)
              drawWidth  == Min(segs[k].buffer.width, width)
          IN IF drawHeight > 0 /\ drawWidth > 0
             THEN << [segment |-> k, top |-> currentTop, height |-> drawHeight,
                      width |-> drawWidth] >>
                  \o StitchBands(segs, k + 1, width, << totalHeight, currentTop + drawHeight >>)
             ELSE StitchBands(segs, k + 1, width, << totalHeight, currentTop >>)

\* variant: currentTop is never advanced, every segment is drawn from row 0
stitchSegments_TopNotAdvanced(segs, width, totalHeight) ==
  Raster(FormatPng, width, totalHeight,
         [k \in DOMAIN segs |->
            [segment |-> k, top |-> 0,
             height |-> Min(segs[k].buffer.height, totalHeight),
             width |-> Min(segs[k].buffer.width, width)]])

\* lines 79-95
stitchSegments(segs, width, totalHeight) ==
  Raster(FormatPng, width, totalHeight, StitchBands(segs, 1, width, << totalHeight, 0 >>))

\* lines 97-107
encodeOutput(pngImage, fmt) ==
  IF fmt = FormatJpeg
  THEN [type |-> FormatJpeg, width |-> pngImage.width, height |-> pngImage.height,
        bands |-> pngImage.bands, alphaFlattened |-> TRUE, quality |-> JpegQuality]
  ELSE [type |-> FormatPng, width |-> pngImage.width, height |-> pngImage.height,
        bands |-> pngImage.bands, alphaFlattened |-> FALSE, quality |-> 0]


\* variant: the ceiling itself already takes the segment path
Measure_StrictCeiling ==
  /\ pagePc = "measure"
  /\ \E h \in TotalHeightPool, v \in ViewportHeightPool :
       /\ v <= h
       /\ metrics' = [totalHeight |-> h, viewportHeight |-> v,
                      viewportWidth |-> ViewportWidth]
       /\ pagePc' = IF h < SingleCaptureCeiling THEN "fullPage" ELSE "segments"
  /\ pageOps' = Append(pageOps, [op |-> "measure"])
  /\ UNCHANGED << httpVars, captureVars, pageFormat, offset, segments, stitchCalls, pageResult >>

\* lines 112-129: the page is measured
Measure ==
  /\ pagePc = "measure"
  /\ \E h \in TotalHeightPool, v \in ViewportHeightPool :
       /\ v <= h
       /\ metrics' = [totalHeight |-> h, viewportHeight |-> v,
                      viewportWidth |-> ViewportWidth]
       /\ pagePc' = IF h <= SingleCaptureCeiling THEN "fullPage" ELSE "segments"
  /\ pageOps' = Append(pageOps, [op |-> "measure"])
  /\ UNCHANGED << httpVars, captureVars, pageFormat, offset, segments, stitchCalls, pageResult >>

\* line 112: the measuring page.evaluate rejects
MeasureFails ==
  /\ pagePc = "measure"
  /\ pageOps' = Append(pageOps, [op |-> "measure"])
  /\ \E m \in ErrMessagePool : pageResult' = Rejected(m)
  /\ pagePc' = "settled"
  /\ UNCHANGED << httpVars, captureVars, pageFormat, metrics, offset, segments, stitchCalls >>

FullPageShot(fmt) ==
  [op |-> "screenshot", fullPage |-> TRUE, type |-> ScreenshotType(fmt),
   quality |-> IF fmt = FormatJpeg THEN JpegQuality ELSE 0]

\* lines 131-138: the fast path
FullPageScreenshot ==
  /\ pagePc = "fullPage"
  /\ pageOps' = Append(pageOps, FullPageShot(pageFormat))
  /\ pageResult' = [kind |-> "resolved",
                    value |-> Raster(ScreenshotType(pageFormat), metrics.viewportWidth,
                                     metrics.totalHeight, << >>)]
  /\ pagePc' = "settled"
  /\ UNCHANGED << httpVars, captureVars, pageFormat, metrics, offset, segments, stitchCalls >>

\* line 132: the full-page screenshot rejects
FullPageScreenshotFails ==
  /\ pagePc = "fullPage"
  /\ pageOps' = Append(pageOps, FullPageShot(pageFormat))
  /\ \E m \in ErrMessagePool : pageResult' = Rejected(m)
  /\ pagePc' = "settled"
  /\ UNCHANGED << httpVars, captureVars, pageFormat, metrics, offset, segments, stitchCalls >>


\* variant: the last segment is not clipped to the remaining height
ClipHeight_NoClip(m, off) == m.viewportHeight

\* line 144
ClipHeight(m, off) == Min(m.viewportHeight, m.totalHeight - off)

ScrollOp(y) == [op |-> "scrollTo", y |-> y]

WaitOp == [op |-> "wait", ms |-> SettleDelay]

ClipShot(m, off) ==
  [op |-> "screenshot", fullPage |-> FALSE, type |-> FormatPng,
   width |-> m.viewportWidth, height |-> ClipHeight(m, off), at |-> off]

\* lines 143-154: one iteration of the segment loop
CaptureSegment ==
  /\ pagePc = "segments"
  /\ offset < metrics.totalHeight
  /\ pageOps' = pageOps \o << ScrollOp(offset), WaitOp, ClipShot(metrics, offset) >>
  /\ segments' = Append(segments,
       [buffer |-> Raster(FormatPng, metrics.viewportWidth, ClipHeight(metrics, offset), << >>),
        height |-> ClipHeight(metrics, offset)])
  /\ offset' = offset + ClipHeight(metrics, offset)
  /\ UNCHANGED << httpVars, captureVars, pagePc, pageFormat, metrics, stitchCalls, pageResult >>

\* lines 145-147: the scroll, the wait or the screenshot of an iteration rejects
CaptureSegmentFails ==
  /\ pagePc = "segments"
  /\ offset < metrics.totalHeight
  /\ \E failing \in 1..3 :
       pageOps' = pageOps \o
         SubSeq(<< ScrollOp(offset), WaitOp, ClipShot(metrics, offset) >>, 1, failing)
  /\ \E m \in ErrMessagePool : pageResult' = Rejected(m)
  /\ pagePc' = "settled"
  /\ UNCHANGED << httpVars, captureVars, pageFormat, metrics, offset, segments, stitchCalls >>

\* lines 143, 156-159: the loop ends, the page scrolls back, the segments are
\* stitched and encoded
StitchAndEncode ==
  /\ pagePc = "segments"
  /\ offset >= metrics.totalHeight
  /\ pageOps' = Append(pageOps, ScrollOp(0))
  /\ stitchCalls' = stitchCalls + 1
  /\ pageResult' = [kind |-> "resolved",
                    value |-> encodeOutput(
                      stitchSegments(segments, metrics.viewportWidth, metrics.totalHeight),
                      pageFormat)]
  /\ pagePc' = "settled"
  /\ UNCHANGED << httpVars, captureVars, pageFormat, metrics, offset, segments >>

\* line 156: scrolling back to the top rejects
ScrollBackFails ==
  /\ pagePc = "segments"
  /\ offset >= metrics.totalHeight
  /\ pageOps' = Append(pageOps, ScrollOp(0))
  /\ \E m \in ErrMessagePool : pageResult' = Rejected(m)
  /\ pagePc' = "settled"
  /\ UNCHANGED << httpVars, captureVars, pageFormat, metrics, offset, segments, stitchCalls >>

NextPage ==
  \/ Measure
  \/ MeasureFails
  \/ FullPageScreenshot
  \/ FullPageScreenshotFails
  \/ CaptureSegment
  \/ CaptureSegmentFails
  \/ StitchAndEncode
  \/ ScrollBackFails

(* ---------------------------- specifications --------------------------- *)

vars == << captureVars, pageVars, httpVars >>

\* one call of captureAll
Init == InitCapture /\ IdlePage /\ IdleHttp

Next == NextCapture

Spec == Init /\ [][Next]_vars

\* one call of captureFullPage on an open page
InitPage ==
  /\ urls = [kind |-> "undefined", items |-> << >>]
  /\ format = Undefined
  /\ destination = Undefined
  /\ allowDiskWrites = FALSE
  /\ IdleCapture
  /\ IdleHttp
  /\ pagePc = "measure"
  /\ pageFormat \in { FormatJpeg, FormatPng }
  /\ metrics = NoMetrics
  /\ offset = 0
  /\ segments = << >>
  /\ pageOps = << >>
  /\ stitchCalls = 0
  /\ pageResult = NoOutcome

SpecPage == InitPage /\ [][NextPage]_vars

(* one HTTP request to the express handler (server.js) or to the serverless
   handler (api/capture.js), with the captureAll call it makes *)

\* a destination of the request body that is not a string (a number)
NotAString == << "<number>" >>

\* typeof v === 'string'
IsString(v) == v \notin { Undefined, Null, NotAString }

\* what the urls property of a request body may hold
BodyUrlsPool ==
  { [kind |-> "undefined", items |-> << >>],
    [kind |-> "array", items |-> << >>],
    [kind |-> "array", items |-> << UrlHttp >>],
    [kind |-> "array", items |-> << UrlEmpty, UrlMalformed >>],
    [kind |-> "array", items |-> << UrlMalformed, UrlHttp >>] }

\* the JSON objects a request body may parse to
ObjectBodies ==
  { [kind |-> "object", urls |-> u, format |-> f, destination |-> d] :
      u \in BodyUrlsPool,
      f \in { Undefined, FormatJpeg },
      d \in { Undefined, NotAString, << " "," " >>, DestinationReport } }

\* express.json gives the handler an object, or leaves req.body undefined
ServerRequests ==
  { [method |-> "POST", body |-> b] : b \in ObjectBodies \cup { [kind |-> "undefined"] } }

\* the serverless handler gets any method, and reads the body itself: an
\* object, the JSON value null, more than 1 MB, or text that is not JSON
ApiRequests ==
  { [method |-> "POST", body |-> b] :
      b \in ObjectBodies \cup { [kind |-> "null"], [kind |-> "tooLarge"],
                                [kind |-> "invalidJson"] } }
  \cup { [method |-> "GET", body |-> [kind |-> "undefined"]] }

\* const { urls, format = 'png', destination } = body
BodyField(body, f) == IF f \in DOMAIN body THEN body[f] ELSE Undefined

BodyUrls(body) ==
  IF "urls" \in DOMAIN body THEN body.urls ELSE [kind |-> "undefined", items |-> << >>]

BodyFormat(body) ==
  IF BodyField(body, "format") = Undefined THEN FormatPng ELSE body.format

CapturesLabel == << "c","a","p","t","u","r","e","s" >>

\* api/capture.js lines 58-60
FolderLabel(d) ==
  IF IsString(d) /\ TrimSpaces(d) # << >> THEN TrimSpaces(d) ELSE CapturesLabel

\* api/capture.js lines 62-65, with os.tmpdir() = /tmp
TemporaryDestination(d) ==
  JoinPath(<< "/","t","m","p" >>, sanitizeForFilename(FolderLabel(d), CapturesLabel))

ZipSuffix == << ".","z","i","p" >>

\* /Please provide one or more URLs\./.test(message)
MatchesMissingURLs(message) == \E k \in DOMAIN message : message[k] = MissingURLsMessage[1]

\* the status and body both handlers answer a rejected captureAll with
ErrorResponse(message) ==
  [status |-> IF MatchesMissingURLs(message) THEN 400 ELSE 500,
   body   |-> [error |-> IF message # << >> THEN message ELSE << "Capture process failed." >>]]

\* the capture state the request leaves alone until captureAll is called
CaptureUntouched ==
  UNCHANGED << i, normalizedFormat, resolvedDestination, archiveFolder, browser, page,
               current, pending, thrown, results, archive, manifest, outcome, events, fsOps >>

\* api/capture.js lines 39-44: any method but POST
ApiMethodNotAllowed ==
  /\ handler = "api" /\ handlerPc = "received"
  /\ request.method # "POST"
  /\ response' = [status |-> 405, body |-> [text |-> << "Method Not Allowed" >>]]
  /\ handlerPc' = "responded"
  /\ UNCHANGED << pageVars, captureVars, handler, request >>

\* api/capture.js lines 46-54: the body cannot be read
ApiBodyUnreadable ==
  /\ handler = "api" /\ handlerPc = "received"
  /\ request.method = "POST"
  /\ request.body.kind \in { "tooLarge", "invalidJson" }
  /\ response' = IF request.body.kind = "tooLarge"
                 THEN [status |-> 413, body |-> [error |-> << "Payload too large." >>]]
                 ELSE [status |-> 400, body |-> [error |-> << "Invalid JSON payload." >>]]
  /\ handlerPc' = "responded"
  /\ UNCHANGED << pageVars, captureVars, handler, request >>

\* api/capture.js line 56: destructuring the JSON value null throws a
\* TypeError outside any try block; the handler writes no response
ApiDestructureFails ==
  /\ handler = "api" /\ handlerPc = "received"
  /\ request.method = "POST"
  /\ request.body.kind = "null"
  /\ handlerPc' = "threw"
  /\ UNCHANGED << pageVars, captureVars, handler, request, response >>

\* api/capture.js lines 56-72: captureAll is called without disk writes
ApiCallsCaptureAll ==
  /\ handler = "api" /\ handlerPc = "received"
  /\ request.method = "POST"
  /\ request.body.kind = "object"
  /\ urls' = BodyUrls(request.body)
  /\ format' = BodyFormat(request.body)
  /\ destination' = TemporaryDestination(request.body.destination)
  /\ allowDiskWrites' = FALSE
  /\ pc' = "start"
  /\ handlerPc' = "awaiting"
  /\ CaptureUntouched
  /\ UNCHANGED << pageVars, handler, request, response >>

\* server.js lines 13-17: no destination, or one that is not a string
ServerMissingDestination ==
  /\ handler = "server" /\ handlerPc = "received"
  /\ ~Truthy(BodyField(request.body, "destination"))
       \/ ~IsString(BodyField(request.body, "destination"))
  /\ response' = [status |-> 400, body |-> [error |-> << "Please provide a destination folder path." >>]]
  /\ handlerPc' = "responded"
  /\ UNCHANGED << pageVars, captureVars, handler, request >>

\* server.js lines 19-24: captureAll is called with disk writes
ServerCallsCaptureAll ==
  /\ handler = "server" /\ handlerPc = "received"
  /\ Truthy(BodyField(request.body, "destination"))
  /\ IsString(BodyField(request.body, "destination"))
  /\ urls' = BodyUrls(request.body)
  /\ format' = BodyFormat(request.body)
  /\ destination' = request.body.destination
  /\ allowDiskWrites' = TRUE
  /\ pc' = "start"
  /\ handlerPc' = "awaiting"
  /\ CaptureUntouched
  /\ UNCHANGED << pageVars, handler, request, response >>

\* server.js lines 26-32, api/capture.js lines 74-82: captureAll resolved
RespondSuccess ==
  /\ handlerPc = "awaiting"
  /\ outcome.kind = "resolved"
  /\ response' =
       [status |-> 200,
        body   |-> IF handler = "server"
                   THEN [success |-> TRUE, results |-> outcome.results,
                         savedTo |-> outcome.savedTo,
                         archiveFileName |-> outcome.archiveFolder \o ZipSuffix]
                   ELSE [success |-> TRUE, results |-> outcome.results,
                         archiveFileName |-> outcome.archiveFolder \o ZipSuffix]]
  /\ handlerPc' = "responded"
  /\ UNCHANGED << pageVars, captureVars, handler, request >>

\* server.js lines 33-38, api/capture.js lines 83-91: captureAll rejected
RespondError ==
  /\ handlerPc = "awaiting"
  /\ outcome.kind = "rejected"
  /\ response' = ErrorResponse(outcome.message)
  /\ handlerPc' = "responded"
  /\ UNCHANGED << pageVars, captureVars, handler, request >>

NextHttp ==
  \/ ApiMethodNotAllowed
  \/ ApiBodyUnreadable
  \/ ApiDestructureFails
  \/ ApiCallsCaptureAll
  \/ ServerMissingDestination
  \/ ServerCallsCaptureAll
  \/ RespondSuccess
  \/ RespondError
  \/ NextCapture

InitHttp ==
  /\ handler \in { "server", "api" }
  /\ request \in (IF handler = "server" THEN ServerRequests ELSE ApiRequests)
  /\ handlerPc = "received"
  /\ response = NoResponse
  /\ urls = [kind |-> "undefined", items |-> << >>]
  /\ format = Undefined
  /\ destination = Undefined
  /\ allowDiskWrites = FALSE
  /\ pc = "notCalled"
  /\ i = 0
  /\ normalizedFormat = Undefined
  /\ resolvedDestination = Null
  /\ archiveFolder = Undefined
  /\ browser = "undefined"
  /\ page = "none"
  /\ current = NoCurrent
  /\ pending = Undefined
  /\ thrown = Undefined
  /\ results = << >>
  /\ archive = << >>
  /\ manifest = NoManifest
  /\ outcome = NoOutcome
  /\ events = << >>
  /\ fsOps = << >>
  /\ IdlePage

SpecHttp == InitHttp /\ [][NextHttp]_vars

(* one call of stitchSegments on any segments, canvas width and total height *)

MaxSegments == 3

MaxSegmentHeight == 3

MaxCanvasHeight == 6

\* widths of the decoded segment images and of the canvas
WidthPool == { 1, 2 }

\* the decoded PNG images the segments may hold (line 84)
SegmentPool ==
  { [buffer |-> Raster(FormatPng, w, h, << >>), height |-> h] :
      w \in WidthPool, h \in 1..MaxSegmentHeight }

\* lines 158, 79-95: the segments are stitched on a canvas
Stitch ==
  /\ pagePc = "stitch"
  /\ stitchCalls' = stitchCalls + 1
  /\ pageResult' = [kind |-> "resolved",
                    value |-> stitchSegments(segments, metrics.viewportWidth,
                                             metrics.totalHeight)]
  /\ pagePc' = "stitched"
  /\ UNCHANGED << httpVars, captureVars, pageFormat, metrics, offset, segments, pageOps >>

NextStitch == Stitch

InitStitch ==
  /\ urls = [kind |-> "undefined", items |-> << >>]
  /\ format = Undefined
  /\ destination = Undefined
  /\ allowDiskWrites = FALSE
  /\ IdleCapture
  /\ IdleHttp
  /\ pagePc = "stitch"
  /\ pageFormat = FormatPng
  /\ \E w \in WidthPool, h \in 0..MaxCanvasHeight :
       metrics = [totalHeight |-> h, viewportHeight |-> 0, viewportWidth |-> w]
  /\ offset = 0
  /\ segments \in SeqsUpTo(SegmentPool, MaxSegments)
  /\ pageOps = << >>
  /\ stitchCalls = 0
  /\ pageResult = NoOutcome

SpecStitch == InitStitch /\ [][NextStitch]_vars

(* ------------------------------ properties ----------------------------- *)

EventsOf(op) == SelectSeq(events, LAMBDA e : e.op = op)

CountOf(op) == Len(EventsOf(op))

\* position of the first event op in events, 0 if there is none
FirstEvent(op) ==
  IF \E p \in DOMAIN events : events[p].op = op
  THEN CHOOSE p \in DOMAIN events :
         events[p].op = op /\ \A q \in 1..(p - 1) : events[q].op # op
  ELSE 0

PageOps == { "newPage", "goto", "closePage" }

\* the non-blank URLs of the request, in input order
NonBlankUrls == SelectSeq(urls.items, Truthy)

\* number of non-blank URLs among the first k entries
NonBlankBefore(k) == Len(SelectSeq(SubSeq(urls.items, 1, k), Truthy))

IsArrayRequest == urls.kind = "array" /\ Len(urls.items) > 0

\* C1: a call of captureAll with an empty, absent or non-array URL list is
\* rejected with 'Please provide one or more URLs.' and performs no browser
\* operation at all.
C1_MissingUrlsRejected ==
  (urls.kind # "array" \/ urls.items = << >>) =>
    /\ pc \in { "start", "settled" }
    /\ browser = "undefined"
    /\ events = << >>
    /\ pc = "settled" => outcome = Rejected(MissingURLsMessage)

C1_Witness ==
  /\ urls = [kind |-> "array", items |-> << >>]
  /\ pc = "settled"
  /\ outcome.kind = "rejected"

\* C2: a request whose URL list holds no non-empty URL never launches a
\* browser and never resolves with an archive.
C2_BlankOnlyRejected ==
  (urls.kind = "array" /\ \A k \in DOMAIN urls.items : urls.items[k] = UrlEmpty) =>
    /\ browser = "undefined"
    /\ outcome.kind # "resolved"

\* C3: when captureAll returns, its results hold exactly one entry per
\* non-blank input URL, in input order, none for a blank entry; the entry of
\* a malformed URL is a failure; there are at most as many results as inputs.
C3_OneResultPerNonBlankUrl ==
  /\ (IsArrayRequest /\ pc \in { "loop", "archive" }) =>
       /\ Len(results) = NonBlankBefore(i)
       /\ \A j \in DOMAIN results : results[j].url = NonBlankUrls[j]
  /\ outcome.kind = "resolved" =>
       /\ Len(outcome.results) = Len(NonBlankUrls)
       /\ Len(outcome.results) <= Len(urls.items)
       /\ \A j \in DOMAIN outcome.results :
            /\ outcome.results[j].url = NonBlankUrls[j]
            /\ outcome.results[j].success \in BOOLEAN
            /\ ~NewURL(NonBlankUrls[j]).ok => ~outcome.results[j].success

C3_Witness ==
  /\ outcome.kind = "resolved"
  /\ \E k \in DOMAIN urls.items : urls.items[k] = UrlEmpty
  /\ Len(outcome.results) = 1
  /\ Len(urls.items) = 2

\* C4: a malformed URL gets the failed result with error 'Invalid URL', and
\* no page is opened and no navigation attempted for it.
C4_InvalidUrlNeverNavigated ==
  IsArrayRequest =>
    \A k \in DOMAIN urls.items :
      (Truthy(urls.items[k]) /\ ~NewURL(urls.items[k]).ok) =>
        /\ \A p \in DOMAIN events : events[p].idx # k - 1
        /\ (k <= i /\ browser # "undefined") =>
             results[NonBlankBefore(k)] = [url |-> urls.items[k], success |-> FALSE,
                                           error |-> << "Invalid URL" >>]

C4_Witness ==
  /\ outcome.kind = "resolved"
  /\ \E j \in DOMAIN outcome.results :
       /\ outcome.results[j].url = UrlMalformed
       /\ outcome.results[j].error = << "Invalid URL" >>
  /\ CountOf("newPage") = 1

\* C5: no per-URL failure leaves the URL loop: once the loop is over every
\* non-blank URL has a result and no error is travelling.
C5_NoFailureLeavesLoop ==
  (IsArrayRequest /\ pc \in { "finally", "archive", "settled" } /\ browser # "undefined") =>
    /\ thrown = Undefined
    /\ Len(results) = Len(NonBlankUrls)

\* C6 as stated: every call that passes validation launches exactly one
\* browser session and closes it exactly once.
C6_ExactlyOneSession ==
  (IsArrayRequest /\ pc = "settled") =>
    /\ CountOf("launch") = 1
    /\ CountOf("closeBrowser") = 1

\* C6 amended: a call that passes validation launches at most one browser
\* session, exactly one unless creating the destination directory or the
\* launch itself fails; a launched session is closed exactly once, after the
\* last page operation and before the archive is built, also when an error
\* leaves the loop.
C6_SessionClosedOnce ==
  /\ CountOf("launch") <= 1
  /\ CountOf("closeBrowser") <= CountOf("launch")
  /\ (browser = "open") <=> (CountOf("launch") = 1 /\ CountOf("closeBrowser") = 0)
  /\ (browser = "closed") <=> (CountOf("closeBrowser") = 1)
  /\ pc \in { "loop", "goto", "title", "capture", "closePage", "finally" } => browser = "open"
  /\ pc = "archive" => browser = "closed"
  /\ (pc = "settled" /\ CountOf("launch") = 1) => CountOf("closeBrowser") = 1
  /\ (pc = "settled" /\ IsArrayRequest /\ CountOf("launch") = 0) =>
       /\ outcome.kind = "rejected"
       /\ events = << >>
  /\ outcome.kind = "resolved" => CountOf("launch") = 1
  /\ CountOf("closeBrowser") = 1 =>
       /\ \A p \in DOMAIN events :
            events[p].op \in PageOps \cup { "launch" } => p < FirstEvent("closeBrowser")
       /\ \A p \in DOMAIN events :
            events[p].op = "archive" => p > FirstEvent("closeBrowser")

C6_Witness ==
  /\ pc = "settled"
  /\ outcome.kind = "rejected"
  /\ thrown # Undefined
  /\ CountOf("launch") = 1
  /\ CountOf("closeBrowser") = 1
  /\ CountOf("newPage") = 1

\* C7: at most one page is open at any time, and the page opened for a URL
\* has been closed before the loop goes on to the next URL and before the
\* browser is closed, whether its capture succeeded or failed.
C7_OnePageAtATime ==
  /\ CountOf("newPage") - CountOf("closePage") \in { 0, 1 }
  /\ (page = "open") <=> (CountOf("newPage") - CountOf("closePage") = 1)
  /\ page = "open" => pc \in { "goto", "title", "capture", "closePage" }
  /\ page = "open" => browser = "open"
  /\ \A p \in DOMAIN events :
       events[p].op = "newPage" =>
         \A q \in (p + 1)..Len(events) :
           (events[q].idx # events[p].idx) =>
             \E c \in (p + 1)..(q - 1) :
               events[c] = Event("closePage", events[p].idx)

C7_Witness ==
  /\ CountOf("newPage") = 2
  /\ CountOf("closePage") = 2
  /\ browser = "closed"
  /\ Len(results) = 2
  /\ ~results[1].success
  /\ results[2].success

FullPageShots == SelectSeq(pageOps, LAMBDA o : o.op = "screenshot" /\ o.fullPage)

ClipShots == SelectSeq(pageOps, LAMBDA o : o.op = "screenshot" /\ ~o.fullPage)

Scrolls == SelectSeq(pageOps, LAMBDA o : o.op = "scrollTo")

RECURSIVE SumHeights(_)
SumHeights(segs) == IF segs = << >> THEN 0 ELSE Head(segs).height + SumHeights(Tail(segs))

\* ceil(h / v) for positive v
CeilDiv(h, v) == (h + v - 1) \div v

Measured == metrics # NoMetrics

SegmentLoopOver == pagePc = "segments" /\ offset >= metrics.totalHeight

\* C8: for a page of height H > 16384 and viewport height V the segment loop
\* captures at the offsets 0, V, 2V, ..., every segment V high except the
\* last, which is clipped to what remains; it ends after ceil(H/V) captures,
\* whose heights sum to H.
C8_SegmentsCoverPage ==
  (Measured /\ metrics.totalHeight > 16384) =>
    LET H == metrics.totalHeight
        V == metrics.viewportHeight
        n == CeilDiv(H, V)
    IN /\ Len(segments) <= n
       /\ Len(ClipShots) \in { Len(segments), Len(segments) + 1 }
       /\ \A k \in DOMAIN ClipShots :
            /\ ClipShots[k].at = V * (k - 1)
            /\ ClipShots[k].height = IF k < n THEN V ELSE H - V * (n - 1)
            /\ ClipShots[k].height > 0
       /\ \A k \in DOMAIN segments : segments[k].height = ClipShots[k].height
       /\ pagePc = "segments" => offset = SumHeights(segments)
       /\ (SegmentLoopOver \/ pageResult.kind = "resolved") =>
            /\ Len(segments) = n
            /\ Len(ClipShots) = n
            /\ SumHeights(segments) = H

C8_Witness ==
  /\ pageResult.kind = "resolved"
  /\ metrics.totalHeight = 16385
  /\ metrics.viewportHeight = 720
  /\ Len(segments) = 23
  /\ segments[23].height = 545

\* C9: a page measuring at most 16384 is captured by exactly one full-page
\* screenshot, which is what captureFullPage returns, with no scroll, no
\* clipped capture and no call of stitchSegments; a taller page never gets a
\* full-page screenshot.
C9_FastPathOnly ==
  Measured =>
    /\ metrics.totalHeight <= 16384 =>
         /\ Scrolls = << >>
         /\ ClipShots = << >>
         /\ segments = << >>
         /\ stitchCalls = 0
         /\ Len(FullPageShots) <= 1
         /\ pageResult.kind = "resolved" =>
              /\ Len(FullPageShots) = 1
              /\ pageResult.value = Raster(FullPageShots[1].type, metrics.viewportWidth,
                                           metrics.totalHeight, << >>)
    /\ metrics.totalHeight > 16384 =>
         /\ FullPageShots = << >>
         /\ pageResult.kind = "resolved" => stitchCalls = 1

C9_Witness ==
  /\ pageResult.kind = "resolved"
  /\ metrics.totalHeight = 16384
  /\ Len(FullPageShots) = 1

ImageEntries == SelectSeq(archive, LAMBDA e : e.kind = "image")

TextEntries == SelectSeq(archive, LAMBDA e : e.kind = "text")

ManifestEntries == SelectSeq(archive, LAMBDA e : e.kind = "manifest")

Successes == SelectSeq(results, LAMBDA r : r.success)

Failures == SelectSeq(results, LAMBDA r : ~r.success)

ArchiveBuilt == archive # << >>

\* C10: the archive holds one entry per successful result, one per failed
\* result and one manifest, and a manifest entry's success flag is true
\* exactly when the archive holds an image entry for that result.
C10_ArchiveEntryCount ==
  ArchiveBuilt =>
    /\ Len(archive) = Len(Successes) + Len(Failures) + 1
    /\ Len(ImageEntries) = Len(Successes)
    /\ Len(TextEntries) = Len(Failures)
    /\ Len(ManifestEntries) = 1
    /\ Len(manifest.files) = Len(results)
    /\ \A k \in DOMAIN results :
         /\ manifest.files[k].url = results[k].url
         /\ manifest.files[k].success <=> archive[k].kind = "image"
         /\ ~manifest.files[k].success <=> archive[k].kind = "text"

C10_Witness ==
  /\ ArchiveBuilt
  /\ Len(Successes) = 1
  /\ Len(Failures) = 1
  /\ Len(archive) = 3

\* C11: the archive entries follow the results in order, each under the
\* folder prefix (the image at <folder>/<filename> for a success, the text at
\* <folder>/<sanitized url, or 'failed'>.txt for a failure), and the single
\* <folder>/manifest.json entry comes last.
C11_EntriesInResultOrder ==
  ArchiveBuilt =>
    /\ Len(archive) = Len(results) + 1
    /\ \A k \in DOMAIN results :
         IF results[k].success
         THEN /\ archive[k].kind = "image"
              /\ archive[k].name = archiveFolder \o << "/" >> \o results[k].filename
         ELSE /\ archive[k].kind = "text"
              /\ archive[k].name =
                   archiveFolder \o << "/" >>
                     \o sanitizeForFilename(results[k].url, << "f","a","i","l","e","d" >>)
                     \o << ".","t","x","t" >>
    /\ archive[Len(archive)].kind = "manifest"
    /\ archive[Len(archive)].name =
         archiveFolder \o << "/","m","a","n","i","f","e","s","t",".","j","s","o","n" >>
    /\ \A k \in DOMAIN results : archive[k].kind # "manifest"

C11_Witness ==
  /\ ArchiveBuilt
  /\ Len(results) = 2
  /\ ~results[1].success
  /\ results[1].url = UrlUnsafe
  /\ archive[1].name = archiveFolder \o << "/","f","a","i","l","e","d",".","t","x","t" >>
  /\ results[2].success
  /\ archive[3].kind = "manifest"

\* C12: the message of the error that failed a URL is, unchanged, the error
\* of that URL's result and the content of its text entry in the archive,
\* whatever the message, the empty one included.
C12_ErrorTextVerbatim ==
  ArchiveBuilt =>
    \A k \in DOMAIN results :
      ~results[k].success =>
        /\ archive[k].kind = "text"
        /\ archive[k].content = results[k].error

\* the text sanitizeForFilename keeps of s, before any fallback
SanitizedText(s) ==
  ToLowerCase(SliceTo(CollapseHyphens(SpaceRunsToHyphen(StripUnsafe(s))), 80))

\* C13: a successful capture is named <NN>-<base>.<ext>: NN the two-digit
\* 1-based position of the URL in the input list, base the sanitized page
\* title when there is one, else the sanitized hostname, else page-<n>, ext
\* jpg for the format jpeg and png for any other format.
C13_FilenameShape ==
  (pc = "capture" /\ IsArrayRequest) =>
    LET n     == i + 1
        title == SanitizedText(current.title)
        host  == SanitizedText(NewURL(urls.items[n]).hostname)
        base  == IF title # << >> THEN title
                 ELSE IF host # << >> THEN host
                 ELSE << "p","a","g","e","-" >> \o DecimalDigits(n)
        ext   == IF format = << "j","p","e","g" >> THEN << "j","p","g" >>
                 ELSE << "p","n","g" >>
    IN current.filename =
         (IF n < 10 THEN << "0" >> ELSE << >>) \o DecimalDigits(n) \o << "-" >> \o base
           \o << "." >> \o ext

\* the request was parsed and carries no URL list, or an empty one
UrlListMissing ==
  /\ request.method = "POST"
  /\ request.body.kind \in { "object", "undefined", "null" }
  /\ BodyUrls(request.body).items = << >>

\* C14: in both HTTP handlers a request whose URL list is empty or absent is
\* answered with status 400; when captureAll returns the answer is status
\* 200 with success true, whatever the results; and no failure of a step on
\* one URL is behind a top-level error response.
C14_HandlerResponses ==
  handlerPc \in { "responded", "threw" } =>
    /\ UrlListMissing => response.status = 400
    /\ outcome.kind = "resolved" =>
         /\ response.status = 200
         /\ response.body.success
         /\ response.body.results = outcome.results
    /\ response.status # 200 => thrown = Undefined

\* the rows of the canvas a band covers
RowsOf(band) == band.top .. (band.top + band.height - 1)

\* C15: stitchSegments returns a canvas of exactly (width, totalHeight);
\* each drawn segment sits at the sum of the drawn heights before it, in
\* segment order, with its height clamped to what is left of the canvas, so
\* no row is written twice and none outside [0, totalHeight); a segment is
\* left out only when the canvas is full; and when the segment heights sum
\* to totalHeight every row of the canvas is written.
C15_StitchedCanvas ==
  pagePc = "stitched" =>
    LET canvas == pageResult.value
        bands  == canvas.bands
        H      == metrics.totalHeight
    IN /\ canvas.width = metrics.viewportWidth
       /\ canvas.height = H
       /\ \A j \in DOMAIN bands :
            /\ bands[j].segment \in DOMAIN segments
            /\ bands[j].top = SumHeights(SubSeq(bands, 1, j - 1))
            /\ bands[j].height > 0
            /\ bands[j].height <= segments[bands[j].segment].buffer.height
            /\ bands[j].height = segments[bands[j].segment].buffer.height
                 \/ bands[j].top + bands[j].height = H
            /\ RowsOf(bands[j]) \subseteq 0..(H - 1)
       /\ \A j, m \in DOMAIN bands :
            j < m => /\ bands[j].segment < bands[m].segment
                     /\ RowsOf(bands[j]) \cap RowsOf(bands[m]) = { }
       /\ SumHeights(bands) <= H
       /\ \A k \in DOMAIN segments :
            (\A j \in DOMAIN bands : bands[j].segment # k) => SumHeights(bands) = H
       /\ SumHeights(segments) = H =>
            /\ Len(bands) = Len(segments)
            /\ UNION { RowsOf(bands[j]) : j \in DOMAIN bands } = 0..(H - 1)

C15_Witness ==
  /\ pagePc = "stitched"
  /\ Len(segments) = 3
  /\ metrics.totalHeight = 6
  /\ segments[1].buffer.height = 1
  /\ segments[2].buffer.height = 3
  /\ segments[3].buffer.height = 2
  /\ Len(pageResult.value.bands) = 3
  /\ pageResult.value.bands[3].top = 4

\* the destinations that count as a given label
GivenLabels == { d \in DestinationPool : Truthy(d) }

\* what sanitizing keeps of each whole label, and of each label's last segment
WholeLabelText == [d \in GivenLabels |-> SanitizedText(d)]

LastSegmentText == [d \in GivenLabels |-> SanitizedText(Basename(d))]

\* the folder name is non-empty, the prefix of every archive entry, and the
\* manifest's folder
IsArchiveFolder(name) ==
  /\ name # << >>
  /\ manifest.folder = name
  /\ \A k \in DOMAIN archive :
       /\ Len(archive[k].name) > Len(name) + 1
       /\ SubSeq(archive[k].name, 1, Len(name) + 1) = name \o << "/" >>

\* C16 as stated: with a destination label the archive folder name is the
\* sanitization of that label (unsafe characters stripped, whitespace runs
\* to hyphens, hyphen runs collapsed, at most 80 characters, lowercased),
\* without one it is screenshots-<timestamp>; it is never empty, prefixes
\* every archive entry and is the manifest's folder.
C16_FolderIsSanitizedLabel ==
  outcome.kind = "resolved" =>
    /\ IF destination \in GivenLabels
       THEN outcome.archiveFolder = WholeLabelText[destination]
       ELSE \E now \in NowPool : outcome.archiveFolder = ScreenshotsPrefix \o now
    /\ IsArchiveFolder(outcome.archiveFolder)

\* C16 amended: with a destination the archive folder name is the
\* sanitization of the destination's last path segment (path.basename),
\* or 'page' when nothing of that segment is kept; without a destination it
\* is screenshots-<timestamp>. It is never empty, at most 80 characters when
\* derived from a destination, a function of the destination alone, the
\* prefix of every archive entry and the manifest's folder.
C16_FolderFromLastSegment ==
  outcome.kind = "resolved" =>
    /\ IF destination \in GivenLabels
       THEN /\ outcome.archiveFolder =
                 (IF LastSegmentText[destination] # << >> THEN LastSegmentText[destination]
                  ELSE << "p","a","g","e" >>)
            /\ Len(outcome.archiveFolder) <= 80
       ELSE \E now \in NowPool : outcome.archiveFolder = ScreenshotsPrefix \o now
    /\ IsArchiveFolder(outcome.archiveFolder)

C16_Witness ==
  /\ outcome.kind = "resolved"
  /\ destination = DestinationLong
  /\ Len(outcome.archiveFolder) = 80
  /\ outcome.archiveFolder[1] = "l"
  /\ Len(archive) = 3

\* C17: with allowDiskWrites = false nothing is written to the file system:
\* no directory is made, no file written, savedTo is null and no result has
\* a file path, whatever the URLs and the destination.
C17_NoDiskWrites ==
  ~allowDiskWrites =>
    /\ fsOps = << >>
    /\ resolvedDestination = Null
    /\ \A k \in DOMAIN results :
         /\ ~Truthy(Field(results[k], "filePath"))
         /\ results[k].success => results[k].filePath = Null
    /\ outcome.kind = "resolved" =>
         /\ outcome.savedTo = Null
         /\ \A k \in DOMAIN outcome.results :
              /\ ~Truthy(Field(outcome.results[k], "filePath"))
              /\ outcome.results[k].success => outcome.results[k].filePath = Null

C17_Witness ==
  /\ ~allowDiskWrites
  /\ destination = DestinationReport
  /\ outcome.kind = "resolved"
  /\ Len(outcome.results) = 2
  /\ outcome.results[1].success
  /\ outcome.results[2].success

\* C18: no two entries of an archive have the same path, and no result
\* entry has the path of the manifest.
C18_EntryPathsDistinct ==
  ArchiveBuilt =>
    \A j, k \in DOMAIN archive : j # k => archive[j].name # archive[k].name

====
